---- MODULE Spec2Model ----
(***************************************************************************)
(* Detection-configuration store and resolver of the surveillance backend  *)
(* (surveillance/models.py, serializers.py, views.py, admin.py).           *)
(*                                                                         *)
(* Encoding.                                                               *)
(*   - A nullable value is a sequence of length 0 (None) or 1 (<<v>>).     *)
(*   - confidence values are floats in the source; here they are integers  *)
(*     in tenths (0.6 is 6, 1.5 is 15).                                    *)
(*   - a time of day is the hour 0..23 (TimeField without date).           *)
(*   - the database runs in Django's default autocommit mode: the source   *)
(*     opens no transaction (no transaction.atomic anywhere in views.py or *)
(*     serializers.py), so every ORM call is its own committed statement.  *)
(*   - created_at / updated_at and rule primary keys are not modelled.     *)
(***************************************************************************)
EXTENDS Integers, Sequences, FiniteSets, TLC

VARIABLES configs,   \* rows of DetectionConfig
          rules,     \* rows of DetectionRule
          nextId,    \* next primary key of DetectionConfig
          reqs,      \* requests in flight (interleaved specification only)
          last,      \* the last completed operation and its response status
          served,    \* number of operations accepted so far
          users,     \* rows of User
          cameras    \* rows of Camera (their primary keys)

vars == <<configs, rules, nextId, reqs, last, served, users, cameras>>

None == <<>>
Some(v) == <<v>>

----------------------------------------------------------------------------
(* Bounds *)

MaxConfigs == 3     \* DetectionConfig rows ever inserted
MaxInFlight == 2    \* requests handled at the same time
MaxServed == 3      \* operations accepted in one behaviour

----------------------------------------------------------------------------
(* The users and cameras of the installation *)

\* the users and the cameras there are at the start; rows are deleted, and
\* a primary key is never used again
Users == {"u1", "u2"}

Cameras == {"c1", "c2"}

\* a camera id that addresses no row
CameraIds == Cameras \cup {"c9"}

\* Camera.user: both cameras belong to u1, u2 owns none
CameraUser(c) == IF c \in {"c1", "c2"} THEN "u1" ELSE "u2"

\* a lookup of the camera that does not look at the owner
CameraFound_any_owner(c, u) == c \in cameras

\* Camera.objects.get(id=camera_id, user=request.user) finds a row
CameraFound(c, u) == c \in cameras /\ CameraUser(c) = u

----------------------------------------------------------------------------
(* Choices and defaults of the model fields *)

MONITOR_MODE_CHOICES == {"always", "after_hours", "custom"}

SECURITY_RELEVANT_COCO_CLASSES ==
    {"person", "bicycle", "car", "motorcycle", "bus", "truck", "backpack",
     "handbag", "suitcase", "knife", "bottle", "cell phone", "laptop"}

THREAT_LEVEL_CHOICES == {"HIGH", "MEDIUM", "LOW", "IGNORE"}

\* pytz.timezone(name) succeeds
KnownTimezones == {"UTC", "America/New_York"}

\* the field defaults of DetectionConfig
FieldDefault(f) ==
    CASE f = "monitor_mode" -> "always"
      [] f = "active_hours_start" -> None
      [] f = "active_hours_end" -> None
      [] f = "timezone" -> "UTC"
      [] f = "confidence_threshold" -> 6
      [] f = "frame_skip" -> 5

\* what DetectionConfigCreateSerializer reads from request.data: the keys the
\* body holds and their values (val is read only at the keys present)
BaseVal == [monitor_mode |-> "always", active_hours_start |-> None,
            active_hours_end |-> None, timezone |-> "UTC",
            confidence_threshold |-> 6, frame_skip |-> 5,
            detection_rules |-> <<>>]

Rule(oc, tl, sa, mc) ==
    [object_class |-> oc, threat_level |-> tl, should_alert |-> sa,
     min_confidence |-> mc]

RPersonHigh == Rule("person", "HIGH", TRUE, None)
RPersonLow == Rule("person", "LOW", FALSE, Some(9))
RCarMedium == Rule("car", "MEDIUM", TRUE, Some(8))
RDrone == Rule("drone", "HIGH", TRUE, None)

PEmpty == [keys |-> {}, val |-> BaseVal]
PCustomWindow ==
    [keys |-> {"monitor_mode", "active_hours_start", "active_hours_end",
               "detection_rules"},
     val |-> [BaseVal EXCEPT !.monitor_mode = "custom",
                             !.active_hours_start = Some(22),
                             !.active_hours_end = Some(6),
                             !.detection_rules = <<RPersonHigh>>]]
PCustomOnly ==
    [keys |-> {"monitor_mode"},
     val |-> [BaseVal EXCEPT !.monitor_mode = "custom"]]
PClearStart ==
    [keys |-> {"active_hours_start"}, val |-> BaseVal]
PConfRules ==
    [keys |-> {"confidence_threshold", "detection_rules"},
     val |-> [BaseVal EXCEPT !.confidence_threshold = 9,
                             !.detection_rules = <<RCarMedium>>]]
PDupRules ==
    [keys |-> {"detection_rules"},
     val |-> [BaseVal EXCEPT !.detection_rules = <<RPersonHigh, RPersonLow>>]]
PNoRules ==
    [keys |-> {"detection_rules"}, val |-> BaseVal]
PBadZone ==
    [keys |-> {"timezone"}, val |-> [BaseVal EXCEPT !.timezone = "Mars/Phobos"]]
PBadMode ==
    [keys |-> {"monitor_mode"},
     val |-> [BaseVal EXCEPT !.monitor_mode = "sometimes"]]
PBadClass ==
    [keys |-> {"detection_rules"},
     val |-> [BaseVal EXCEPT !.detection_rules = <<RDrone>>]]
PConfOut ==
    [keys |-> {"confidence_threshold"},
     val |-> [BaseVal EXCEPT !.confidence_threshold = 15]]

\* the request bodies the model sends
Payloads == {PEmpty, PCustomWindow, PCustomOnly, PClearStart, PConfRules,
             PDupRules, PNoRules, PBadZone, PBadMode, PBadClass, PConfOut}

----------------------------------------------------------------------------
(* DetectionConfig: validation and the uniqueness constraints *)

\* clean without the check of the scope
clean_no_scope(inst) ==
    /\ (inst.monitor_mode \in {"after_hours", "custom"}
          => (inst.active_hours_start # None /\ inst.active_hours_end # None))
    /\ inst.timezone \in KnownTimezones

\* clean without the check of the time window
clean_no_window(inst) ==
    /\ ~(inst.user = None /\ inst.camera = None)
    /\ ~(inst.user # None /\ inst.camera # None)
    /\ inst.timezone \in KnownTimezones

\* DetectionConfig.clean: no ValidationError is raised
clean(inst) ==
    /\ ~(inst.user = None /\ inst.camera = None)
    /\ ~(inst.user # None /\ inst.camera # None)
    /\ (inst.monitor_mode \in {"after_hours", "custom"}
          => (inst.active_hours_start # None /\ inst.active_hours_end # None))
    /\ inst.timezone \in KnownTimezones

\* a table without the two unique constraints
constraints_none(cfgs, inst) == TRUE

\* Meta.constraints: the row inst may be stored next to the rows of cfgs.
\* A partial unique index; NULL never equals NULL.
constraints(cfgs, inst) ==
    /\ (inst.camera = None /\ inst.user # None)
          => ~ \E o \in cfgs : o.id # inst.id /\ o.camera = None
                               /\ o.user = inst.user
    /\ (inst.user = None /\ inst.camera # None)
          => ~ \E o \in cfgs : o.id # inst.id /\ o.user = None
                               /\ o.camera = inst.camera

\* Model.full_clean as called by DetectionConfig.save: field choices, clean,
\* and the constraints
full_clean(cfgs, inst) ==
    /\ inst.monitor_mode \in MONITOR_MODE_CHOICES
    /\ clean(inst)
    /\ constraints(cfgs, inst)

\* DetectionConfig(user=..., camera=..., **validated_data): the fields the
\* body does not hold take the model defaults
NewInstance(user, camera, p) ==
    [id |-> 0, user |-> user, camera |-> camera,
     monitor_mode |->
        IF "monitor_mode" \in p.keys THEN p.val.monitor_mode
        ELSE FieldDefault("monitor_mode"),
     active_hours_start |->
        IF "active_hours_start" \in p.keys THEN p.val.active_hours_start
        ELSE FieldDefault("active_hours_start"),
     active_hours_end |->
        IF "active_hours_end" \in p.keys THEN p.val.active_hours_end
        ELSE FieldDefault("active_hours_end"),
     timezone |->
        IF "timezone" \in p.keys THEN p.val.timezone
        ELSE FieldDefault("timezone"),
     confidence_threshold |->
        IF "confidence_threshold" \in p.keys THEN p.val.confidence_threshold
        ELSE FieldDefault("confidence_threshold"),
     frame_skip |->
        IF "frame_skip" \in p.keys THEN p.val.frame_skip
        ELSE FieldDefault("frame_skip")]

\* an update that writes the default of every field the body leaves out
SetAttrs_replace(inst, p) ==
    [NewInstance(inst.user, inst.camera, p) EXCEPT !.id = inst.id]

\* for attr, value in validated_data.items(): setattr(instance, attr, value)
SetAttrs(inst, p) ==
    [inst EXCEPT
       !.monitor_mode =
          IF "monitor_mode" \in p.keys THEN p.val.monitor_mode ELSE @,
       !.active_hours_start =
          IF "active_hours_start" \in p.keys THEN p.val.active_hours_start
          ELSE @,
       !.active_hours_end =
          IF "active_hours_end" \in p.keys THEN p.val.active_hours_end ELSE @,
       !.timezone = IF "timezone" \in p.keys THEN p.val.timezone ELSE @,
       !.confidence_threshold =
          IF "confidence_threshold" \in p.keys
          THEN p.val.confidence_threshold ELSE @,
       !.frame_skip = IF "frame_skip" \in p.keys THEN p.val.frame_skip ELSE @]

\* serializer.is_valid() of DetectionConfigCreateSerializer: the choice
\* fields of the config and of every nested rule; the FloatField of
\* confidence_threshold carries no validator and takes any number
is_valid(p) ==
    /\ ("monitor_mode" \in p.keys => p.val.monitor_mode \in MONITOR_MODE_CHOICES)
    /\ ("detection_rules" \in p.keys =>
          \A i \in 1..Len(p.val.detection_rules) :
             /\ p.val.detection_rules[i].object_class
                   \in SECURITY_RELEVANT_COCO_CLASSES
             /\ p.val.detection_rules[i].threat_level \in THREAT_LEVEL_CHOICES)

----------------------------------------------------------------------------
(* Queries *)

\* QuerySet.get: the row, DoesNotExist, or MultipleObjectsReturned
Get(S) ==
    IF S = {} THEN [res |-> "DoesNotExist", row |-> None]
    ELSE IF Cardinality(S) = 1
         THEN [res |-> "ok", row |-> Some(CHOOSE x \in S : TRUE)]
         ELSE [res |-> "MultipleObjectsReturned", row |-> None]

\* DetectionConfig.objects.get(camera=camera)
GetCameraConfig(cfgs, c) == Get({o \in cfgs : o.camera = Some(c)})

\* DetectionConfig.objects.get(user=user, camera__isnull=True)
GetUserConfig(cfgs, u) ==
    Get({o \in cfgs : o.user = Some(u) /\ o.camera = None})

\* config.detection_rules.all()
RulesOf(rls, id) == {r \in rls : r.config = id}

\* the resolver with the two lookups in the wrong order
effective_user_first(cfgs, c) ==
    LET cam == GetCameraConfig(cfgs, c)
        usr == GetUserConfig(cfgs, CameraUser(c))
    IN  IF usr.res = "ok" THEN usr
        ELSE IF cam.res = "ok" THEN cam
        ELSE [res |-> "ok", row |-> None]

\* the resolver without the user-default tier
effective_camera_only(cfgs, c) ==
    LET cam == GetCameraConfig(cfgs, c)
    IN  IF cam.res = "ok" THEN cam ELSE [res |-> "ok", row |-> None]

\* DetectionConfig.get_effective_config_for_camera
get_effective_config_for_camera(cfgs, c) ==
    LET cam == GetCameraConfig(cfgs, c)
        usr == GetUserConfig(cfgs, CameraUser(c))
    IN  IF cam.res = "ok" THEN cam
        ELSE IF cam.res = "MultipleObjectsReturned" THEN cam
        ELSE IF usr.res = "ok" THEN usr
        ELSE IF usr.res = "MultipleObjectsReturned" THEN usr
        ELSE [res |-> "ok", row |-> None]

\* system defaults with another confidence threshold
system_defaults_half ==
    [monitor_mode |-> "always", active_hours_start |-> None,
     active_hours_end |-> None, timezone |-> "UTC",
     confidence_threshold |-> 5, frame_skip |-> 5]

\* DetectionConfig.get_system_defaults
get_system_defaults ==
    [monitor_mode |-> "always", active_hours_start |-> None,
     active_hours_end |-> None, timezone |-> "UTC",
     confidence_threshold |-> 6, frame_skip |-> 5]

\* an effective confidence that ignores the rule's own threshold
effective_confidence_of_config(rule, cfg) == cfg.confidence_threshold

\* DetectionRule.get_effective_confidence
get_effective_confidence(rule, cfg) ==
    IF rule.min_confidence # None THEN rule.min_confidence[1]
    ELSE cfg.confidence_threshold

\* DetectionRuleSerializer(rules, many=True).data (without the primary keys)
RulesData(rls, cfg) ==
    {[object_class |-> r.object_class, threat_level |-> r.threat_level,
      should_alert |-> r.should_alert, min_confidence |-> r.min_confidence,
      effective_confidence |-> get_effective_confidence(r, cfg)] :
        r \in RulesOf(rls, cfg.id)}

\* str(datetime.time) of a full hour: "06:00:00", "22:00:00"
TimeStr(h) ==
    IF h < 10 THEN "0" \o ToString(h) \o ":00:00"
    ELSE ToString(h) \o ":00:00"

\* str(t) if t else None
TimeOrNone(t) == IF t # None THEN Some(TimeStr(t[1])) ELSE None

\* a serializer that fills the object classes the camera override has no
\* rule for with the rules of the owner's default
get_effective_config_inherit(cfgs, rls, c) ==
    LET g == get_effective_config_for_camera(cfgs, c)
        usr == GetUserConfig(cfgs, CameraUser(c))
        own == IF g.row # None THEN RulesData(rls, g.row[1]) ELSE {}
        inherited ==
            IF usr.res = "ok"
            THEN {d \in RulesData(rls, usr.row[1]) :
                    ~ \E e \in own : e.object_class = d.object_class}
            ELSE {}
    IN  IF g.res # "ok"
        THEN [error |-> TRUE]
        ELSE IF g.row # None
        THEN [error |-> FALSE,
              monitor_mode |-> g.row[1].monitor_mode,
              active_hours_start |-> TimeOrNone(g.row[1].active_hours_start),
              active_hours_end |-> TimeOrNone(g.row[1].active_hours_end),
              timezone |-> g.row[1].timezone,
              confidence_threshold |-> g.row[1].confidence_threshold,
              frame_skip |-> g.row[1].frame_skip,
              detection_rules |-> own \cup inherited,
              is_system_default |-> FALSE]
        ELSE [error |-> FALSE,
              monitor_mode |-> "always",
              active_hours_start |-> None,
              active_hours_end |-> None,
              timezone |-> "UTC",
              confidence_threshold |-> 6,
              frame_skip |-> 5,
              detection_rules |-> {},
              is_system_default |-> TRUE]

\* ActiveCameraWithConfigSerializer.get_effective_config; error tells that
\* the lookup raised instead of answering
get_effective_config(cfgs, rls, c) ==
    LET g == get_effective_config_for_camera(cfgs, c)
        defaults == get_system_defaults
    IN  IF g.res # "ok"
        THEN [error |-> TRUE]
        ELSE IF g.row # None
        THEN [error |-> FALSE,
              monitor_mode |-> g.row[1].monitor_mode,
              active_hours_start |-> TimeOrNone(g.row[1].active_hours_start),
              active_hours_end |-> TimeOrNone(g.row[1].active_hours_end),
              timezone |-> g.row[1].timezone,
              confidence_threshold |-> g.row[1].confidence_threshold,
              frame_skip |-> g.row[1].frame_skip,
              detection_rules |-> RulesData(rls, g.row[1]),
              is_system_default |-> FALSE]
        ELSE [error |-> FALSE,
              monitor_mode |-> defaults.monitor_mode,
              active_hours_start |-> None,
              active_hours_end |-> None,
              timezone |-> defaults.timezone,
              confidence_threshold |-> defaults.confidence_threshold,
              frame_skip |-> defaults.frame_skip,
              detection_rules |-> {},
              is_system_default |-> TRUE]


\* Meta.fields of DetectionConfigSerializer: the keys of its data
DetectionConfigSerializerFields ==
    {"id", "user", "camera", "scope", "monitor_mode", "active_hours_start",
     "active_hours_end", "timezone", "confidence_threshold", "frame_skip",
     "detection_rules", "created_at", "updated_at"}

\* the GET branch of camera_config: the status, the keys of the response and
\* those of its keys that hold True
camera_config_get(cfgs, u, c) ==
    LET g == get_effective_config_for_camera(cfgs, c)
    IN  IF ~CameraFound(c, u)
        THEN [status |-> "404", fields |-> {"error"}, flags |-> {}]
        ELSE IF g.res # "ok"
        THEN [status |-> "500", fields |-> {}, flags |-> {}]
        ELSE IF g.row # None /\ g.row[1].camera = Some(c)
        THEN [status |-> "200", fields |-> DetectionConfigSerializerFields,
              flags |-> {}]
        ELSE IF g.row # None
        THEN [status |-> "200",
              fields |-> DetectionConfigSerializerFields
                            \cup {"is_override", "is_user_default"},
              flags |-> {"is_user_default"}]
        ELSE [status |-> "200",
              fields |-> {"monitor_mode", "active_hours_start",
                          "active_hours_end", "timezone",
                          "confidence_threshold", "frame_skip",
                          "detection_rules", "is_override", "is_user_default",
                          "is_system_default"},
              flags |-> {"is_system_default"}]

----------------------------------------------------------------------------
(* The PUT handlers camera_config and user_default_config, one database     *)
(* statement at a time.  A request is                                       *)
(*   kind    "camera" (camera_config) or "user" (user_default_config)       *)
(*   user    request.user                                                   *)
(*   camera  camera_id of the URL ("-" for kind "user")                     *)
(*   data    request.data                                                   *)
(*   pc      the handler's position                                         *)
(*   inst    the model instance the handler holds in memory                 *)
(*   todo    the rules still to be created                                  *)
(*   ok      the status the handler answers when nothing raises             *)
(*   before  the rules of the existing config when the handler looked it   *)
(*           up (kept for the record of the operation)                     *)
(*   status  the response: 200, 201, 400, 404, or 500 for an exception      *)
(*           that leaves the view (django ValidationError, IntegrityError,  *)
(*           MultipleObjectsReturned)                                       *)
(***************************************************************************)

NewRequest(kind, u, c, p) ==
    [kind |-> kind, user |-> u, camera |-> c, data |-> p, pc |-> "start",
     inst |-> None, todo |-> <<>>, ok |-> "-", before |-> {},
     status |-> "-"]

Store(cfgs, rls, nid) == [configs |-> cfgs, rules |-> rls, nextId |-> nid]

Answer(r, code) == [r EXCEPT !.pc = "done", !.status = code]

\* rules_data of the create path: validated_data.pop('detection_rules', [])
RulesDataCreate(p) ==
    IF "detection_rules" \in p.keys THEN p.val.detection_rules ELSE <<>>

\* rules_data popped with the default of the create path
RulesDataUpdate_empty(p) ==
    IF "detection_rules" \in p.keys THEN Some(p.val.detection_rules)
    ELSE Some(<<>>)

\* rules_data of serializer.update: validated_data.pop('detection_rules', None)
RulesDataUpdate(p) ==
    IF "detection_rules" \in p.keys THEN Some(p.val.detection_rules) ELSE None

\* the row DetectionRule.objects.create(config=config, **rule_data) inserts
RuleRow(id, rd) ==
    [config |-> id, object_class |-> rd.object_class,
     threat_level |-> rd.threat_level, should_alert |-> rd.should_alert,
     min_confidence |-> rd.min_confidence]

\* a rule table that takes every row
rule_unique_none(rls, row) == TRUE

\* DetectionRule.Meta.unique_together: the row may be inserted
rule_unique(rls, row) ==
    ~ \E o \in rls : o.config = row.config /\ o.object_class = row.object_class

\* the lookup of the config the PUT is about
GetExisting(cfgs, r) ==
    IF r.kind = "camera" THEN GetCameraConfig(cfgs, r.camera)
    ELSE GetUserConfig(cfgs, r.user)

\* camera lookup and serializer.is_valid() (views.py 212-218, 254-260, 323-329)
StepStart(st, r) ==
    IF r.kind = "camera" /\ ~CameraFound(r.camera, r.user)
    THEN [st |-> st, r |-> Answer(r, "404")]
    ELSE IF ~is_valid(r.data)
    THEN [st |-> st, r |-> Answer(r, "400")]
    ELSE [st |-> st, r |-> [r EXCEPT !.pc = "get"]]

\* a handler that never finds the existing config
StepGet_never_found(st, r) == [st |-> st, r |-> [r EXCEPT !.pc = "create"]]

\* existing_config = DetectionConfig.objects.get(...)
StepGet(st, r) ==
    LET g == GetExisting(st.configs, r)
    IN  IF g.res = "ok"
        THEN [st |-> st,
              r |-> [r EXCEPT !.pc = "save", !.inst = g.row,
                              !.before = RulesOf(st.rules, g.row[1].id)]]
        ELSE IF g.res = "DoesNotExist"
        THEN [st |-> st, r |-> [r EXCEPT !.pc = "create"]]
        ELSE [st |-> st, r |-> Answer(r, "500")]

\* config = DetectionConfig.objects.create(camera=camera, **validated_data)
\* (or user=request.user): save() runs full_clean, then the INSERT
StepCreate(st, r) ==
    LET new == [NewInstance(IF r.kind = "user" THEN Some(r.user) ELSE None,
                            IF r.kind = "camera" THEN Some(r.camera) ELSE None,
                            r.data)
                  EXCEPT !.id = st.nextId]
    IN  IF ~full_clean(st.configs, new)
        THEN [st |-> st, r |-> Answer(r, "500")]
        ELSE [st |-> [st EXCEPT !.configs = @ \cup {new}, !.nextId = @ + 1],
              r |-> [r EXCEPT !.pc = "rules", !.inst = Some(new),
                              !.todo = RulesDataCreate(r.data),
                              !.ok = "201"]]

\* serializer.update: setattr of the fields supplied, instance.save()
\* (full_clean, then an UPDATE of every column from the instance in memory)
StepSave(st, r) ==
    LET new == SetAttrs(r.inst[1], r.data)
        rd == RulesDataUpdate(r.data)
    IN  IF ~full_clean(st.configs, new)
        THEN [st |-> st, r |-> Answer(r, "500")]
        ELSE [st |-> [st EXCEPT !.configs =
                         {o \in @ : o.id # new.id} \cup {new}],
              r |-> IF rd = None
                    THEN [r EXCEPT !.pc = "done", !.status = "200",
                                   !.inst = Some(new), !.ok = "200"]
                    ELSE [r EXCEPT !.pc = "delete_rules", !.inst = Some(new),
                                   !.todo = rd[1], !.ok = "200"]]

\* an update that deletes the rules of every config
StepDeleteAllRules(st, r) ==
    [st |-> [st EXCEPT !.rules = {}], r |-> [r EXCEPT !.pc = "rules"]]

\* an update that keeps the stored rules
StepKeepRules(st, r) == [st |-> st, r |-> [r EXCEPT !.pc = "rules"]]

\* instance.detection_rules.all().delete()
StepDeleteRules(st, r) ==
    [st |-> [st EXCEPT !.rules = @ \ RulesOf(@, r.inst[1].id)],
     r |-> [r EXCEPT !.pc = "rules"]]

\* one pass of: for rule_data in rules_data:
\*                  DetectionRule.objects.create(config=config, **rule_data)
StepRule(st, r) ==
    IF r.todo = <<>>
    THEN [st |-> st, r |-> Answer(r, r.ok)]
    ELSE LET row == RuleRow(r.inst[1].id, Head(r.todo))
         IN  IF ~rule_unique(st.rules, row)
             THEN [st |-> st, r |-> Answer(r, "500")]
             ELSE [st |-> [st EXCEPT !.rules = @ \cup {row}],
                   r |-> [r EXCEPT !.todo = Tail(@)]]

\* the next statement of the handler
Step(st, r) ==
    CASE r.pc = "start" -> StepStart(st, r)
      [] r.pc = "get" -> StepGet(st, r)
      [] r.pc = "create" -> StepCreate(st, r)
      [] r.pc = "save" -> StepSave(st, r)
      [] r.pc = "delete_rules" -> StepDeleteRules(st, r)
      [] r.pc = "rules" -> StepRule(st, r)
      [] OTHER -> [st |-> st, r |-> r]

\* the handler run from r to its response with no other request in between
RECURSIVE Run(_, _)
Run(st, r) ==
    IF r.pc = "done" THEN [st |-> st, r |-> r]
    ELSE LET n == Step(st, r) IN Run(n.st, n.r)

----------------------------------------------------------------------------
(* State *)

NoOp == [op |-> "none", user |-> "-", camera |-> "-", data |-> PEmpty,
         status |-> "-", path |-> "-", before |-> {}, again |-> FALSE]

Idle == NewRequest("-", "-", "-", PEmpty)

Init ==
    /\ configs = {}
    /\ rules = {}
    /\ nextId = 1
    /\ reqs = [i \in 1..MaxInFlight |-> Idle]
    /\ last = NoOp
    /\ served = 0
    /\ users = Users
    /\ cameras = Cameras

Current == Store(configs, rules, nextId)

\* what a completed request leaves in last: the request, the response status,
\* path (whether the handler took the create path, the update path, or
\* neither), before (the rules the existing config had), and again (the
\* operation completed before it was the same request and it succeeded)
Completed(r) ==
    [op |-> r.kind, user |-> r.user, camera |-> r.camera, data |-> r.data,
     status |-> r.status,
     path |-> IF r.ok = "201" THEN "create"
              ELSE IF r.inst # None THEN "update" ELSE "-",
     before |-> r.before,
     again |-> /\ last.op = r.kind /\ last.user = r.user
               /\ last.camera = r.camera /\ last.data = r.data
               /\ last.status \in {"200", "201"}]

\* a whole PUT, start to response
Put(kind, u, c, p) ==
    LET res == Run(Current, NewRequest(kind, u, c, p))
    IN  /\ served < MaxServed
        /\ res.st.nextId <= MaxConfigs + 1
        /\ served' = served + 1
        /\ configs' = res.st.configs
        /\ rules' = res.st.rules
        /\ nextId' = res.st.nextId
        /\ last' = Completed(res.r)
        /\ UNCHANGED <<reqs, users, cameras>>

\* PUT /cameras/<camera_id>/config/
PutCameraConfig == \E u \in users, c \in CameraIds, p \in Payloads :
                       Put("camera", u, c, p)

\* PUT /users/me/default-config/
PutUserDefaultConfig == \E u \in users, p \in Payloads : Put("user", u, "-", p)

\* the admin's add form of DetectionConfig: ModelForm validation runs
\* full_clean, save_model runs save(); any user and camera may be chosen
AdminAddConfig ==
    \E u \in {None} \cup {Some(x) : x \in users},
       c \in {None} \cup {Some(x) : x \in cameras} :
        LET new == [NewInstance(u, c, PEmpty) EXCEPT !.id = nextId]
            okay == full_clean(configs, new)
        IN  /\ served < MaxServed
            /\ nextId <= MaxConfigs
            /\ served' = served + 1
            /\ configs' = IF okay THEN configs \cup {new} ELSE configs
            /\ nextId' = IF okay THEN nextId + 1 ELSE nextId
            /\ last' = [op |-> "admin_add",
                        user |-> IF u = None THEN "-" ELSE u[1],
                        camera |-> IF c = None THEN "-" ELSE c[1],
                        data |-> PEmpty,
                        status |-> IF okay THEN "saved" ELSE "form_error",
                        path |-> IF okay THEN "create" ELSE "-",
                        before |-> {}, again |-> FALSE]
            /\ UNCHANGED <<rules, reqs, users, cameras>>

\* what last holds after an operation that is no PUT
Record(op, u, c, code, path, before) ==
    [op |-> op, user |-> u, camera |-> c, data |-> PEmpty, status |-> code,
     path |-> path, before |-> before, again |-> FALSE]

\* a delete that leaves the configs of the deleted rows in the table
cascade_nothing(cfgs, rls, us, cs) == [configs |-> cfgs, rules |-> rls]

\* on_delete=models.CASCADE of DetectionConfig.user, DetectionConfig.camera
\* and DetectionRule.config: what is left of the configs and rules when the
\* users us and the cameras cs are deleted
cascade(cfgs, rls, us, cs) ==
    LET dead == {o \in cfgs :
                   \/ (o.user # None /\ o.user[1] \in us)
                   \/ (o.camera # None /\ o.camera[1] \in cs)}
    IN  [configs |-> cfgs \ dead,
         rules |-> {r \in rls : ~ \E o \in dead : o.id = r.config}]

\* DELETE /api/cameras/<id>/ (CameraViewSet.destroy on the user's queryset)
DeleteCamera ==
    \E u \in users, c \in CameraIds :
        LET left == cascade(configs, rules, {}, {c})
        IN  /\ served < MaxServed
            /\ served' = served + 1
            /\ IF CameraFound(c, u)
               THEN /\ cameras' = cameras \ {c}
                    /\ configs' = left.configs
                    /\ rules' = left.rules
                    /\ last' = Record("camera_delete", u, c, "204", "-",
                                      rules \ left.rules)
               ELSE /\ last' = Record("camera_delete", u, c, "404", "-", {})
                    /\ UNCHANGED <<cameras, configs, rules>>
            /\ UNCHANGED <<nextId, reqs, users>>

\* a user is deleted: Camera.user cascades to the user's cameras
DeleteUser ==
    \E u \in users :
        LET cs == {c \in cameras : CameraUser(c) = u}
            left == cascade(configs, rules, {u}, cs)
        IN  /\ served < MaxServed
            /\ served' = served + 1
            /\ users' = users \ {u}
            /\ cameras' = cameras \ cs
            /\ configs' = left.configs
            /\ rules' = left.rules
            /\ last' = Record("user_delete", u, "-", "deleted", "-",
                              rules \ left.rules)
            /\ UNCHANGED <<nextId, reqs>>

\* GET /api/cameras/<id>/config/
GetCameraConfigView ==
    \E u \in users, c \in CameraIds :
        /\ served < MaxServed
        /\ served' = served + 1
        /\ last' = Record("camera_get", u, c,
                          camera_config_get(configs, u, c).status, "-", {})
        /\ UNCHANGED <<configs, rules, nextId, reqs, users, cameras>>

Next ==
    \/ PutCameraConfig \/ PutUserDefaultConfig \/ AdminAddConfig
    \/ DeleteCamera \/ DeleteUser \/ GetCameraConfigView

Spec == Init /\ [][Next]_vars

----------------------------------------------------------------------------
(* The same handlers with their statements interleaved: up to MaxInFlight  *)
(* requests are handled at once, each database statement is one step.      *)

\* the request bodies sent while other requests are in flight
ConcPayloads == {PEmpty, PCustomWindow, PConfRules}

\* a worker picks up request r
Begin(r) ==
    \E i \in 1..MaxInFlight :
        /\ served < MaxServed
        /\ reqs[i] = Idle
        /\ \A j \in 1..(i - 1) : reqs[j] # Idle
        /\ reqs' = [reqs EXCEPT ![i] = r]
        /\ served' = served + 1
        /\ UNCHANGED <<configs, rules, nextId, last, users, cameras>>

\* PUT /cameras/<camera_id>/config/ arrives
BeginPutCamera == \E u \in users, c \in CameraIds, p \in ConcPayloads :
                      Begin(NewRequest("camera", u, c, p))

\* PUT /users/me/default-config/ arrives
BeginPutUser == \E u \in users, p \in ConcPayloads :
                    Begin(NewRequest("user", u, "-", p))

\* the next statement of request i; the response is recorded in last
StepPut ==
    \E i \in 1..MaxInFlight :
        LET n == Step(Current, reqs[i])
        IN  /\ reqs[i] # Idle
            /\ n.st.nextId <= MaxConfigs + 1
            /\ configs' = n.st.configs
            /\ rules' = n.st.rules
            /\ nextId' = n.st.nextId
            /\ reqs' = [reqs EXCEPT
                          ![i] = IF n.r.pc = "done" THEN Idle ELSE n.r]
            /\ last' = IF n.r.pc = "done" THEN Completed(n.r) ELSE last
            /\ UNCHANGED <<served, users, cameras>>

NextConc == BeginPutCamera \/ BeginPutUser \/ StepPut

SpecConc == Init /\ [][NextConc]_vars

----------------------------------------------------------------------------
(* Properties of the resolver *)

CameraOverrides(c) == {o \in configs : o.camera = Some(c)}

UserDefaults(u) == {o \in configs : o.user = Some(u) /\ o.camera = None}

\* C1: a camera that has a camera-scoped config resolves to exactly that
\* config, whether or not its owner has a user-default config.
C1_CameraOverrideWins ==
    \A c \in Cameras : \A o \in CameraOverrides(c) :
        get_effective_config_for_camera(configs, c)
            = [res |-> "ok", row |-> Some(o)]

\* a camera with an override whose owner also has a default
C1_Witness ==
    \E c \in Cameras :
        CameraOverrides(c) # {} /\ UserDefaults(CameraUser(c)) # {}

\* C2: a camera without a camera-scoped config whose owner has a user-default
\* config resolves to that default, the same row for every such camera of
\* the user.
C2_UserDefaultApplies ==
    \A c \in Cameras : \A d \in UserDefaults(CameraUser(c)) :
        CameraOverrides(c) = {}
            => get_effective_config_for_camera(configs, c)
                   = [res |-> "ok", row |-> Some(d)]

\* two cameras of one user, neither with an override, and a default of the
\* user that a PUT has written
C2_Witness ==
    /\ UserDefaults("u1") # {}
    /\ CameraOverrides("c1") = {} /\ CameraOverrides("c2") = {}
    /\ last.op = "user" /\ last.status \in {"200", "201"}

\* the system-default record of the specification
SystemDefaultRecord ==
    [error |-> FALSE, monitor_mode |-> "always", active_hours_start |-> None,
     active_hours_end |-> None, timezone |-> "UTC",
     confidence_threshold |-> 6, frame_skip |-> 5, detection_rules |-> {},
     is_system_default |-> TRUE]

\* C3: a camera with no camera-scoped config whose owner has no user-default
\* config gets exactly the system-default record: always, no window, UTC,
\* 0.6, frame skip 5, no rules, marked as system default.
C3_SystemDefaults ==
    \A c \in Cameras :
        (CameraOverrides(c) = {} /\ UserDefaults(CameraUser(c)) = {})
            => get_effective_config(configs, rules, c) = SystemDefaultRecord

\* configs are stored, with rules, but none applies to camera c2
C3_Witness ==
    /\ CameraOverrides("c2") = {} /\ UserDefaults("u1") = {}
    /\ CameraOverrides("c1") # {} /\ UserDefaults("u2") # {}
    /\ rules # {}

----------------------------------------------------------------------------
(* Properties of the store *)

\* C4: under any interleaving of upserts, two simultaneous first upserts for
\* one scope included, there is at most one camera-override config per camera
\* and at most one user-default config per user.
C4_OneConfigPerScope ==
    /\ \A c \in Cameras : Cardinality(CameraOverrides(c)) <= 1
    /\ \A u \in Users : Cardinality(UserDefaults(u)) <= 1

\* two first upserts for one camera raced: a request is past its lookup,
\* which found nothing, and about to create, while the other request's row
\* is stored
C4_Witness ==
    \E i \in 1..MaxInFlight :
        /\ reqs[i].kind = "camera" /\ reqs[i].pc = "create"
        /\ CameraOverrides(reqs[i].camera) # {}

ScopeSet(o) == (o.user # None /\ o.camera = None)
                   \/ (o.user = None /\ o.camera # None)

\* C5: every stored config has exactly one of user and camera set, and a
\* write of a config with both or with neither is rejected and stores nothing.
C5_ScopeExclusive ==
    /\ [](\A o \in configs : ScopeSet(o))
    /\ [][(last'.op = "admin_add" /\ served' = served + 1
             /\ (last'.user = "-") = (last'.camera = "-"))
          => (last'.status = "form_error" /\ configs' = configs
                /\ rules' = rules)]_vars

\* the admin form was sent with both a user and a camera
C5_Witness ==
    /\ last.op = "admin_add" /\ last.user # "-" /\ last.camera # "-"
    /\ configs # {}

IsPut(l) == l.op \in {"camera", "user"}

\* C6: an upsert that fails leaves the stored configs and rules as they were
\* before the call.
C6_FailedUpsertWritesNothing ==
    [][(IsPut(last') /\ served' = served + 1
          /\ last'.status \notin {"200", "201"})
       => (configs' = configs /\ rules' = rules)]_vars

\* the config a PUT is about
Target(cfgs, l) ==
    IF l.op = "camera" THEN {o \in cfgs : o.camera = Some(l.camera)}
    ELSE {o \in cfgs : o.user = Some(l.user) /\ o.camera = None}

SeqRange(q) == {q[i] : i \in 1..Len(q)}

\* C7: after a successful upsert on an existing config that supplies a rules
\* list, the rules of the config are exactly the supplied ones.
C7_RulesReplaced ==
    [][(IsPut(last') /\ served' = served + 1 /\ last'.status = "200"
          /\ "detection_rules" \in last'.data.keys)
       => \A o \in Target(configs', last') :
              RulesOf(rules', o.id)
                  = {RuleRow(o.id, d) : d \in SeqRange(last'.data.val.detection_rules)}]_vars

\* an update replaced rules for one object class by a rule for another
C7_Witness ==
    /\ IsPut(last) /\ last.status = "200" /\ last.path = "update"
    /\ last.data = PConfRules
    /\ \E b \in last.before : b.object_class = "person"

\* C8: an upsert on an existing config that supplies no rules list leaves
\* the rules of the config as they were.
C8_RulesUntouched ==
    [][(IsPut(last') /\ served' = served + 1 /\ last'.path = "update"
          /\ "detection_rules" \notin last'.data.keys)
       => \A o \in Target(configs, last') :
              RulesOf(rules', o.id) = RulesOf(rules, o.id)]_vars

\* an update without a rules list succeeded on a config that has rules
C8_Witness ==
    /\ IsPut(last) /\ last.status = "200" /\ last.path = "update"
    /\ "detection_rules" \notin last.data.keys
    /\ last.before # {}
    /\ \A o \in Target(configs, last) : RulesOf(rules, o.id) = last.before

\* C9: a second PUT of a camera's config with the input of the successful PUT
\* before it succeeds, leaves one config for the camera and changes neither
\* a config field nor a rule.
C9_PutTwice ==
    [][(last'.op = "camera" /\ served' = served + 1 /\ last'.again)
       => /\ last'.status = "200"
          /\ Cardinality({o \in configs' : o.camera = Some(last'.camera)}) = 1
          /\ configs' = configs
          /\ rules' = rules]_vars

\* the same PUT with fields and rules was answered twice in a row
C9_Witness ==
    /\ last.op = "camera" /\ last.again /\ last.data = PCustomWindow
    /\ rules # {}

NeedsWindow(o) == o.monitor_mode \in {"after_hours", "custom"}

\* C10: every stored config with monitor_mode after_hours or custom has both
\* active_hours_start and active_hours_end; an upsert that would leave one
\* missing is rejected.
C10_WindowComplete ==
    \A o \in configs :
        NeedsWindow(o)
            => (o.active_hours_start # None /\ o.active_hours_end # None)

\* a partial update that clears the start of a custom window was rejected
C10_Witness ==
    /\ IsPut(last) /\ last.path = "update" /\ last.data = PClearStart
    /\ last.status = "500"
    /\ \E o \in Target(configs, last) : NeedsWindow(o)

----------------------------------------------------------------------------
(* Properties of the stored values and of the resolved record *)

\* C11: an upsert whose confidence_threshold is outside [0, 1] is rejected
\* before anything is written, so every stored confidence_threshold is
\* within [0, 1] (0..10 in tenths).
C11_ConfidenceInRange ==
    \A o \in configs :
        o.confidence_threshold >= 0 /\ o.confidence_threshold <= 10

\* the record the pipeline gets for camera c
Effective(c) == get_effective_config(configs, rules, c)

\* C12: the effective confidence of every rule of a resolved configuration
\* is the rule's min_confidence when that is set, and the threshold the
\* parent config has now otherwise.
C12_EffectiveConfidence ==
    \A c \in Cameras :
        ~Effective(c).is_system_default
            => \A d \in Effective(c).detection_rules :
                   d.effective_confidence
                       = IF d.min_confidence # None THEN d.min_confidence[1]
                         ELSE Effective(c).confidence_threshold

\* the threshold of a config was changed by an update that left its rules,
\* and a rule without min_confidence reports the new threshold
C12_Witness ==
    /\ IsPut(last) /\ last.path = "update" /\ last.status = "200"
    /\ last.data = PConfOut
    /\ \E c \in Cameras : \E d \in Effective(c).detection_rules :
           d.min_confidence = None /\ d.effective_confidence = 15

\* the configs of the tier that decides for camera c
Winner(c) ==
    IF CameraOverrides(c) # {} THEN CameraOverrides(c)
    ELSE UserDefaults(CameraUser(c))

\* rule record d of a resolved configuration shows the stored rule r
Shows(d, r) ==
    /\ d.object_class = r.object_class /\ d.threat_level = r.threat_level
    /\ d.should_alert = r.should_alert /\ d.min_confidence = r.min_confidence

\* C13: the rules of a resolved configuration are exactly the rules of the
\* config that won the lookup; with a camera override, no rule of the owner's
\* default appears, also for the classes the override has no rule for.
C13_RulesSelfContained ==
    \A c \in Cameras : \A w \in Winner(c) :
        /\ \A d \in Effective(c).detection_rules :
               \E r \in rules : r.config = w.id /\ Shows(d, r)
        /\ \A r \in rules :
               r.config = w.id
                   => \E d \in Effective(c).detection_rules : Shows(d, r)

\* camera c1 has an override with a rule for cars only, its owner's default
\* has a rule for persons, and c1 resolves to no rule for persons
C13_Witness ==
    /\ \E o \in CameraOverrides("c1") :
           {r.object_class : r \in RulesOf(rules, o.id)} = {"car"}
    /\ \E o \in UserDefaults("u1") :
           \E r \in RulesOf(rules, o.id) : r.object_class = "person"
    /\ \A d \in Effective("c1").detection_rules : d.object_class # "person"

\* C14: a PUT of a camera's config leaves every user-default config and its
\* rules as they were, and every other camera without an override of its own
\* still resolves to its owner's default.
C14_DefaultUntouched ==
    [][(last'.op = "camera" /\ served' = served + 1)
       => \A u \in Users :
             /\ UserDefaults(u)' = UserDefaults(u)
             /\ \A d \in UserDefaults(u) :
                   /\ RulesOf(rules', d.id) = RulesOf(rules, d.id)
                   /\ \A c \in Cameras :
                         (c # last'.camera /\ CameraUser(c) = u
                            /\ CameraOverrides(c) = {})
                         => get_effective_config_for_camera(configs', c)
                                = [res |-> "ok", row |-> Some(d)]]_vars

\* an override with rules was written for c1 while the owner's default has
\* rules and camera c2 has no override
C14_Witness ==
    /\ last.op = "camera" /\ last.camera = "c1"
    /\ last.status \in {"200", "201"} /\ last.data = PConfRules
    /\ CameraOverrides("c1") # {} /\ CameraOverrides("c2") = {}
    /\ \E d \in UserDefaults("u1") :
           /\ RulesOf(rules, d.id) # {}
           /\ get_effective_config_for_camera(configs, "c2")
                  = [res |-> "ok", row |-> Some(d)]

\* the tier that decides for camera c
Tier(c) ==
    IF CameraOverrides(c) # {} THEN "camera_override"
    ELSE IF UserDefaults(CameraUser(c)) # {} THEN "user_default"
    ELSE "system_default"

\* C15: the effective-configuration record of a camera has the same fields
\* in all three tiers and a tag whose value tells camera override, user
\* default and system default apart.  The only tag of the pipeline's record
\* is is_system_default; the GET of a camera's config answers with the keys
\* and flags of camera_config_get.
C15_UniformTagged ==
    \A c \in Cameras : \A d \in Cameras :
        /\ DOMAIN Effective(c) = DOMAIN Effective(d)
        /\ Tier(c) # Tier(d)
              => Effective(c).is_system_default # Effective(d).is_system_default
        /\ camera_config_get(configs, CameraUser(c), c).fields
              = camera_config_get(configs, CameraUser(d), d).fields

----------------------------------------------------------------------------
(* Properties of deletion and of the camera lookup *)

\* C19: every stored config references a user or a camera that exists and
\* every stored rule references a config that exists; after a camera or a
\* user is deleted, no config scoped to it and no rule of such a config
\* remains.
C19_NoOrphans ==
    /\ \A o \in configs :
          /\ o.user # None => o.user[1] \in users
          /\ o.camera # None => o.camera[1] \in cameras
    /\ \A r \in rules : \E o \in configs : o.id = r.config

\* a camera or a user was deleted and rules went with it, while another
\* config is still stored
C19_Witness ==
    /\ last.op \in {"camera_delete", "user_delete"}
    /\ last.before # {}
    /\ configs # {}

\* C16: resolving an existing camera never fails: each tier lookup finds at
\* most one config and the resolver returns exactly one result, the camera
\* override, the user default or the system defaults; no config at all is a
\* normal outcome.
C16_ResolveNeverFails ==
    \A c \in cameras :
        LET e == get_effective_config_for_camera(configs, c)
        IN  /\ Cardinality(CameraOverrides(c)) <= 1
            /\ Cardinality(UserDefaults(CameraUser(c))) <= 1
            /\ e.res = "ok"
            /\ e.row \in {None} \cup {Some(o) : o \in Winner(c)}
            /\ (e.row = None) = (Winner(c) = {})
            /\ Effective(c).is_system_default = (Winner(c) = {})
            /\ Effective(c).error = FALSE

\* a second override of a camera was refused, and another camera that has no
\* config at all still resolves
C16_Witness ==
    /\ last.op = "admin_add"
    /\ last.status = "form_error"
    /\ last.camera # "-"
    /\ CameraOverrides(last.camera) # {}
    /\ \E c \in cameras :
          /\ CameraOverrides(c) = {}
          /\ UserDefaults(CameraUser(c)) = {}
          /\ get_effective_config_for_camera(configs, c).row = None

\* C17: no config has two stored rules with the same object_class, after any
\* sequence of creates and rule replacements.
C17_RuleClassUnique ==
    \A r1 \in rules : \A r2 \in rules :
        (r1.config = r2.config /\ r1.object_class = r2.object_class)
            => r1 = r2

\* a PUT whose rule list names one class twice was stopped by the table at
\* the second row, and the first row is stored
C17_Witness ==
    /\ IsPut(last)
    /\ last.data = PDupRules
    /\ last.status = "500"
    /\ \E r \in rules : r.object_class = "person"

\* the camera exists and belongs to the user
Owns(u, c) == c \in cameras /\ CameraUser(c) = u

\* the configs of cameras of other users than u, and their rules
OfOthers(cfgs, rls, u) ==
    LET cs == {o \in cfgs : o.camera # None /\ CameraUser(o.camera[1]) # u}
    IN  [configs |-> cs,
         rules |-> {r \in rls : \E o \in cs : o.id = r.config}]

\* C20: a read or an upsert of the config of a camera that does not exist or
\* that the requesting user does not own answers 404 and leaves every stored
\* config and rule as it was; no request of a user changes a config of
\* another user's camera.
C20_NotFound ==
    [][ /\ (last'.op \in {"camera", "camera_get"}
               /\ ~Owns(last'.user, last'.camera))
           => (last'.status = "404" /\ configs' = configs /\ rules' = rules)
        /\ last'.op \in {"camera", "camera_get", "user", "camera_delete"}
           => OfOthers(configs', rules', last'.user)
                 = OfOthers(configs, rules, last'.user) ]_vars

\* a user asked to write the config of another user's camera, which has a
\* config with rules, and was told the camera is not there
C20_Witness ==
    /\ last.op = "camera"
    /\ last.status = "404"
    /\ last.camera \in cameras
    /\ CameraUser(last.camera) # last.user
    /\ last.data = PConfRules
    /\ \E o \in CameraOverrides(last.camera) : RulesOf(rules, o.id) # {}

----------------------------------------------------------------------------
(* Frame of an update *)

\* the config fields a request body can name
ConfigFieldNames ==
    {"monitor_mode", "active_hours_start", "active_hours_end", "timezone",
     "confidence_threshold", "frame_skip"}

\* C23: on the update path of an upsert every config field the request does
\* not name keeps the value stored before, and no upsert changes the user or
\* camera reference of a stored config.
C23_UpdateFrame ==
    [][ (IsPut(last') /\ served' = served + 1)
        => /\ last'.path = "update"
              => \A o \in Target(configs, last') :
                 \A n \in Target(configs', last') :
                     o.id = n.id
                        => \A f \in ConfigFieldNames \ last'.data.keys :
                               n[f] = o[f]
           /\ \A o \in configs : \A n \in configs' :
                  o.id = n.id => (n.user = o.user /\ n.camera = o.camera) ]_vars

\* an update that was answered 200 and left unnamed a field whose stored value
\* is not the field's default
C23_Witness ==
    /\ IsPut(last)
    /\ last.path = "update"
    /\ last.status = "200"
    /\ \E o \in Target(configs, last) :
       \E f \in ConfigFieldNames \ last.data.keys : o[f] # FieldDefault(f)

----------------------------------------------------------------------------
(* Upserts and reads that overlap *)

\* the rows the rule list of request record l makes for config id
RulesIn(l, id) ==
    {RuleRow(id, d) : d \in SeqRange(l.data.val.detection_rules)}

\* l is a successful upsert on an existing config that carried a rule list
SetsRules(l) ==
    /\ IsPut(l) /\ l.status = "200" /\ l.path = "update"
    /\ "detection_rules" \in l.data.keys

\* this step sends the response of a request and leaves none in flight
LastResponse ==
    /\ \E i \in 1..MaxInFlight : reqs[i] # Idle /\ reqs'[i] = Idle
    /\ \A i \in 1..MaxInFlight : reqs'[i] = Idle

\* C21: when two upserts with rule lists R1 and R2 on the same existing
\* config have both completed successfully, the one right after the other,
\* the rules stored for the config are exactly R1 or exactly R2, never a
\* mixture.
C21_NoMixedRules ==
    [][ (/\ LastResponse
         /\ SetsRules(last) /\ SetsRules(last')
         /\ last.op = last'.op /\ last.user = last'.user
         /\ last.camera = last'.camera)
        => \A o \in Target(configs', last') :
               \/ RulesOf(rules', o.id) = RulesIn(last, o.id)
               \/ RulesOf(rules', o.id) = RulesIn(last', o.id) ]_vars

\* request i is the only one in flight and is past the lookup of an existing
\* config, which it updates with a rule list
SoleUpdate(i) ==
    /\ reqs[i] # Idle
    /\ \A j \in 1..MaxInFlight : j # i => reqs[j] = Idle
    /\ reqs[i].inst # None
    /\ reqs[i].pc \in {"save", "delete_rules", "rules"}
    /\ "detection_rules" \in reqs[i].data.keys

\* what a resolve of camera c returns once the update of request record r,
\* which holds the saved instance, is complete
NewView(c, r) ==
    get_effective_config(
        configs',
        (rules' \ RulesOf(rules', r.inst[1].id)) \cup RulesIn(r, r.inst[1].id),
        c)

\* C22: a resolve that runs while an upsert replaces the fields and the rules
\* of a config returns the complete old config and rule set or the complete
\* new one: after the statement that saves the fields it returns what it
\* returned before or what it returns when the upsert is done, and after
\* each later statement the rules it returns are all the old rules or all
\* the new ones.
C22_ResolveSeesWhole ==
    [][ \A i \in 1..MaxInFlight : \A c \in cameras :
          (/\ SoleUpdate(i)
           /\ reqs'[i] # Idle
           /\ reqs'[i].pc \in {"delete_rules", "rules"}
           /\ Winner(c) = {o \in configs : o.id = reqs[i].inst[1].id})
          => LET r == reqs'[i]
                 seen == get_effective_config(configs', rules', c)
             IN  /\ reqs[i].pc = "save"
                    => seen \in {Effective(c), NewView(c, r)}
                 /\ seen.detection_rules
                       \in {RulesData(r.before, r.inst[1]),
                            RulesData(RulesIn(r, r.inst[1].id), r.inst[1])} ]_vars

====
